---- MODULE Spec2Model ----
(***************************************************************************)
(* A model of the RESP decoder of redis-protocol-parser (src/src/lib.rs).  *)
(* Bytes are their numeric codes, slices are sequences of bytes, and a     *)
(* u64 / usize is a little-endian tuple of four 16-bit limbs so that the   *)
(* whole 64-bit range, and its wrap-around, is represented exactly.        *)
(***************************************************************************)
EXTENDS Integers, Sequences, FiniteSets

\* ------------------------------------------------------------------ bytes

NIL_VALUE_SIZE == 4
CR == 13
LF == 10

\* The sigils matched by parse_resp, and the two bytes of the nil marker.
PLUS == 43
COLON == 58
DOLLAR == 36
STAR == 42
MINUS == 45
ONE == 49

\* ASCII '0'; a decimal digit d is the byte ZERO + d.
ZERO == 48

Drop(s, n) == SubSeq(s, n + 1, Len(s))

Take(s, n) == SubSeq(s, 1, n)

\* ------------------------------------------------------------------ RESP

String(b) == [variant |-> "String", bytes |-> b]

Error(b) == [variant |-> "Error", bytes |-> b]

Integer(b) == [variant |-> "Integer", bytes |-> b]

BulkString(b) == [variant |-> "BulkString", bytes |-> b]

Nil == [variant |-> "Nil"]

Array(v) == [variant |-> "Array", elems |-> v]

\* ---------------------------------------------------------------- RError

\* The unit variants carry no payload; Other boxes the conversion failure.
UnknownSymbol == [kind |-> "UnknownSymbol"]

EmptyInput == [kind |-> "EmptyInput"]

NoCrlf == [kind |-> "NoCrlf"]

IncorrectFormat == [kind |-> "IncorrectFormat"]

Other(source) == [kind |-> "Other", source |-> source]

FromUtf8Error == Other("Utf8Error")

FromParseIntError == Other("ParseIntError")

\* The three ways a call can end: Ok((resp, left)), Err(e), or a panic
\* that unwinds out of the decoder (no Result is produced).
Ok(resp, left) == [tag |-> "Ok", resp |-> resp, left |-> left]

Err(e) == [tag |-> "Err", err |-> e]

Panic(msg) == [tag |-> "Panic", msg |-> msg]

\* ------------------------------------------------------------ u64 / usize

\* One limb holds 16 bits.
Limb == 256 * 256

U64Zero == <<0, 0, 0, 0>>

\* v * 10 + d with the carry out of the top limb (checked_mul, checked_add).
MulAdd(v, d) ==
    LET t1 == v[1] * 10 + d
        t2 == v[2] * 10 + (t1 \div Limb)
        t3 == v[3] * 10 + (t2 \div Limb)
        t4 == v[4] * 10 + (t3 \div Limb)
    IN  [val |-> <<t1 % Limb, t2 % Limb, t3 % Limb, t4 % Limb>>,
         overflow |-> (t4 \div Limb) > 0]

\* v + n for a small n, with the carry out of the top limb.
AddSmall(v, n) ==
    LET t1 == v[1] + n
        t2 == v[2] + (t1 \div Limb)
        t3 == v[3] + (t2 \div Limb)
        t4 == v[4] + (t3 \div Limb)
    IN  [val |-> <<t1 % Limb, t2 % Limb, t3 % Limb, t4 % Limb>>,
         overflow |-> (t4 \div Limb) > 0]

\* Whether the value is below 2^16, and then its value as a number.
IsSmall(v) == v[2] = 0 /\ v[3] = 0 /\ v[4] = 0

SmallVal(v) == v[1]

\* n >= v and n > v for a slice length n (always far below 2^16 here).
LenGe(n, v) == IsSmall(v) /\ n >= SmallVal(v)

LenGt(n, v) == IsSmall(v) /\ n > SmallVal(v)

\* ------------------------------------------------- std conversions (l.104)

IsCont(b) == b >= 128 /\ b <= 191

\* std::str::from_utf8: whether the bytes are well-formed UTF-8.
RECURSIVE IsUtf8(_)
IsUtf8(s) ==
    IF s = <<>> THEN TRUE
    ELSE LET b == s[1]
             n == Len(s)
         IN  IF b < 128 THEN IsUtf8(Drop(s, 1))
             ELSE IF b >= 194 /\ b <= 223
                  THEN n >= 2 /\ IsCont(s[2]) /\ IsUtf8(Drop(s, 2))
             ELSE IF b >= 224 /\ b <= 239
                  THEN /\ n >= 3
                       /\ IsCont(s[2]) /\ IsCont(s[3])
                       /\ (b = 224 => s[2] >= 160)
                       /\ (b = 237 => s[2] <= 159)
                       /\ IsUtf8(Drop(s, 3))
             ELSE IF b >= 240 /\ b <= 244
                  THEN /\ n >= 4
                       /\ IsCont(s[2]) /\ IsCont(s[3]) /\ IsCont(s[4])
                       /\ (b = 240 => s[2] >= 144)
                       /\ (b = 244 => s[2] <= 143)
                       /\ IsUtf8(Drop(s, 4))
             ELSE FALSE

IsDigit(b) == b >= ZERO /\ b <= ZERO + 9

\* The digit loop of str::parse::<u64>: an invalid digit or an overflow of
\* the 64-bit accumulator ends the parse with a ParseIntError.
RECURSIVE ParseDigits(_, _)
ParseDigits(s, acc) ==
    IF s = <<>> THEN [ok |-> TRUE, val |-> acc]
    ELSE IF ~IsDigit(s[1]) THEN [ok |-> FALSE]
    ELSE LET r == MulAdd(acc, s[1] - ZERO)
         IN  IF r.overflow THEN [ok |-> FALSE]
             ELSE ParseDigits(Drop(s, 1), r.val)

\* str::parse::<u64>: empty input is an error, a lone sign is an error, one
\* leading '+' is accepted and skipped, '-' is no digit of an unsigned type.
ParseU64(s) ==
    IF s = <<>> THEN [ok |-> FALSE]
    ELSE IF Len(s) = 1 /\ s[1] \in {PLUS, MINUS} THEN [ok |-> FALSE]
    ELSE IF s[1] = PLUS THEN ParseDigits(Drop(s, 1), U64Zero)
    ELSE ParseDigits(s, U64Zero)

\* std::str::from_utf8(size_str)?.parse::<u64>()? : the value or the RError
\* that `?` converts the failure into.
ParseSize(size_str) ==
    IF ~IsUtf8(size_str) THEN [ok |-> FALSE, err |-> FromUtf8Error]
    ELSE LET r == ParseU64(size_str)
         IN  IF r.ok THEN [ok |-> TRUE, val |-> r.val]
             ELSE [ok |-> FALSE, err |-> FromParseIntError]

\* ------------------------------------------------------------ line scanner

\* ScanFrom with the pair's second half looked up without a bounds check: a
\* CR in the last position is paired with the byte past the end.
RECURSIVE ScanFrom_past_end(_, _, _)
ScanFrom_past_end(input, index, examined) ==
    IF index + 1 > Len(input)
    THEN [tag |-> "Err", err |-> NoCrlf, examined |-> examined]
    ELSE IF input[index + 1] = CR /\ (index + 2 > Len(input) \/ input[index + 2] = LF)
    THEN [tag |-> "Ok", line |-> Take(input, index),
          left |-> Drop(input, index + 2), examined |-> index + 2]
    ELSE ScanFrom_past_end(input, index + 1, index + 2)

\* The loop of parse_everything_until_crlf over the pairs (index, index + 1),
\* index counted from 0. `examined` is the number of leading bytes of input
\* the zipped iterators have yielded so far.
RECURSIVE ScanFrom(_, _, _)
ScanFrom(input, index, examined) ==
    IF index + 2 > Len(input)
    THEN [tag |-> "Err", err |-> NoCrlf, examined |-> examined]
    ELSE IF input[index + 1] = CR /\ input[index + 2] = LF
    THEN [tag |-> "Ok", line |-> Take(input, index),
          left |-> Drop(input, index + 2), examined |-> index + 2]
    ELSE ScanFrom(input, index + 1, index + 2)

parse_everything_until_crlf(input) == ScanFrom(input, 0, 0)

\* parse_simple_string / parse_errors / parse_integers: the scanned line,
\* verbatim, under the variant named by ctor.
Wrap(ctor, x) ==
    CASE ctor = "String" -> String(x)
      [] ctor = "Error" -> Error(x)
      [] ctor = "Integer" -> Integer(x)

\* ParseLine with the remainder starting at the LF instead of after it.
ParseLine_left_at_lf(ctor, input) ==
    LET r == parse_everything_until_crlf(input)
    IN  IF r.tag = "Ok"
        THEN [res |-> Ok(Wrap(ctor, r.line), <<LF>> \o r.left), examined |-> r.examined]
        ELSE [res |-> Err(r.err), examined |-> r.examined]

ParseLine(ctor, input) ==
    LET r == parse_everything_until_crlf(input)
    IN  IF r.tag = "Ok"
        THEN [res |-> Ok(Wrap(ctor, r.line), r.left), examined |-> r.examined]
        ELSE [res |-> Err(r.err), examined |-> r.examined]

parse_simple_string(input) == ParseLine("String", input)

parse_errors(input) == ParseLine("Error", input)

parse_integers(input) == ParseLine("Integer", input)

\* ------------------------------------------------------ bulk-string decoder

\* check_null_value comparing the "-1" only, not the CR LF after it.
check_null_value_no_crlf(input) ==
    /\ Len(input) >= 4
    /\ input[1] = MINUS
    /\ input[2] = ONE

check_null_value(input) ==
    /\ Len(input) >= 4
    /\ input[1] = MINUS
    /\ input[2] = ONE
    /\ input[3] = CR
    /\ input[4] = LF

\* The bytes check_null_value compares before its && chain stops.
NullExamined(input) ==
    IF Len(input) < 4 THEN 0
    ELSE IF input[1] # MINUS THEN 1
    ELSE IF input[2] # ONE THEN 2
    ELSE IF input[3] # CR THEN 3
    ELSE 4

\* check_crlf_at_index asking for the CR only.
check_crlf_at_index_cr_only(input, index, overflow_checks) ==
    IF ~LenGt(Len(input), index)
    THEN [out |-> "false", examined |-> 0]
    ELSE [out |-> IF input[SmallVal(index) + 1] = CR THEN "true" ELSE "false",
          examined |-> SmallVal(index) + 1]

\* check_crlf_at_index(input, index). index + 2 is a usize addition: it
\* panics when the build checks overflow and wraps when it does not, and an
\* index at or past input.len() panics in the slice's bounds check.
check_crlf_at_index(input, index, overflow_checks) ==
    LET sum == AddSmall(index, 2)
    IN  IF sum.overflow /\ overflow_checks
        THEN [out |-> "panic", examined |-> 0]
        ELSE IF ~LenGe(Len(input), sum.val)
        THEN [out |-> "false", examined |-> 0]
        ELSE IF ~LenGt(Len(input), index)
        THEN [out |-> "panic", examined |-> 0]
        ELSE IF input[SmallVal(index) + 1] # CR
        THEN [out |-> "false", examined |-> SmallVal(index) + 1]
        ELSE IF ~LenGt(Len(input), AddSmall(index, 1).val)
        THEN [out |-> "panic", examined |-> SmallVal(index) + 1]
        ELSE [out |-> IF input[SmallVal(index) + 2] = LF THEN "true" ELSE "false",
              examined |-> SmallVal(index) + 2]

Max(a, b) == IF a >= b THEN a ELSE b

\* `size as usize` on a 64-bit target keeps the value.
AsUsize(size) == size

\* parse_bulk_strings taking the payload up to the first CR LF after the
\* length line, and comparing its length with the declared one afterwards.
parse_bulk_strings_to_crlf(input, overflow_checks) ==
    IF check_null_value(input)
    THEN [res |-> Ok(Nil, Drop(input, NIL_VALUE_SIZE)), examined |-> NIL_VALUE_SIZE]
    ELSE LET r == parse_everything_until_crlf(input)
         IN  IF r.tag = "Err"
             THEN [res |-> Err(r.err), examined |-> r.examined]
             ELSE LET p == ParseSize(r.line)
                      q == parse_everything_until_crlf(r.left)
                  IN  IF ~p.ok
                      THEN [res |-> Err(p.err), examined |-> r.examined]
                      ELSE IF q.tag = "Ok" /\ IsSmall(p.val)
                                           /\ Len(q.line) = SmallVal(p.val)
                      THEN [res |-> Ok(BulkString(q.line), q.left),
                            examined |-> r.examined + q.examined]
                      ELSE [res |-> Err(IncorrectFormat),
                            examined |-> r.examined + q.examined]

\* parse_bulk_strings answering the nil marker without stepping over it.
parse_bulk_strings_nil_stays(input, overflow_checks) ==
    IF check_null_value(input)
    THEN [res |-> Ok(Nil, input), examined |-> NIL_VALUE_SIZE]
    ELSE LET n == NullExamined(input)
             r == parse_everything_until_crlf(input)
         IN  IF r.tag = "Err"
             THEN [res |-> Err(r.err), examined |-> Max(n, r.examined)]
             ELSE LET p == ParseSize(r.line)
                  IN  IF ~p.ok
                      THEN [res |-> Err(p.err), examined |-> Max(n, r.examined)]
                      ELSE LET size == AsUsize(p.val)
                               c == check_crlf_at_index(r.left, size, overflow_checks)
                               e == Max(n, r.examined + c.examined)
                           IN  IF c.out = "true"
                               THEN [res |-> Ok(BulkString(Take(r.left, SmallVal(size))),
                                                Drop(r.left, SmallVal(size) + 2)),
                                     examined |-> e]
                               ELSE IF c.out = "false"
                               THEN [res |-> Err(IncorrectFormat), examined |-> e]
                               ELSE [res |-> Panic("check_crlf_at_index"), examined |-> e]

parse_bulk_strings(input, overflow_checks) ==
    IF check_null_value(input)
    THEN [res |-> Ok(Nil, Drop(input, NIL_VALUE_SIZE)), examined |-> NIL_VALUE_SIZE]
    ELSE LET n == NullExamined(input)
             r == parse_everything_until_crlf(input)
         IN  IF r.tag = "Err"
             THEN [res |-> Err(r.err), examined |-> Max(n, r.examined)]
             ELSE LET p == ParseSize(r.line)
                  IN  IF ~p.ok
                      THEN [res |-> Err(p.err), examined |-> Max(n, r.examined)]
                      ELSE LET size == AsUsize(p.val)
                               c == check_crlf_at_index(r.left, size, overflow_checks)
                               e == Max(n, r.examined + c.examined)
                           IN  IF c.out = "true"
                               THEN [res |-> Ok(BulkString(Take(r.left, SmallVal(size))),
                                                Drop(r.left, SmallVal(size) + 2)),
                                     examined |-> e]
                               ELSE IF c.out = "false"
                               THEN [res |-> Err(IncorrectFormat), examined |-> e]
                               ELSE [res |-> Panic("check_crlf_at_index"), examined |-> e]

\* -------------------------------------------------------------- dispatcher

\* What one byte more of consumed prefix (the sigil) does to a decoder's
\* result: the bytes examined are counted from the start of parse_resp's input.
AfterSigil(r) == [res |-> r.res, examined |-> r.examined + 1]

\* parse_resp taking an exhausted buffer for a nil value.
ParseRespLeaf_empty_is_nil(input, overflow_checks) ==
    IF input = <<>> THEN [res |-> Ok(Nil, input), examined |-> 0]
    ELSE LET first == input[1]
             rest == Drop(input, 1)
         IN  CASE first = PLUS -> AfterSigil(parse_simple_string(rest))
               [] first = COLON -> AfterSigil(parse_integers(rest))
               [] first = DOLLAR -> AfterSigil(parse_bulk_strings(rest, overflow_checks))
               [] first = MINUS -> AfterSigil(parse_errors(rest))
               [] OTHER -> [res |-> Err(UnknownSymbol), examined |-> 1]

\* parse_resp for every input but an array: an empty input, an unknown
\* sigil, or one of the four decoders that do not recurse.
ParseRespLeaf(input, overflow_checks) ==
    IF input = <<>> THEN [res |-> Err(EmptyInput), examined |-> 0]
    ELSE LET first == input[1]
             rest == Drop(input, 1)
         IN  CASE first = PLUS -> AfterSigil(parse_simple_string(rest))
               [] first = COLON -> AfterSigil(parse_integers(rest))
               [] first = DOLLAR -> AfterSigil(parse_bulk_strings(rest, overflow_checks))
               [] first = MINUS -> AfterSigil(parse_errors(rest))
               [] OTHER -> [res |-> Err(UnknownSymbol), examined |-> 1]

IsArraySigil(input) == input # <<>> /\ input[1] = STAR

\* ----------------------------------------------------------- array decoder

\* Vec::with_capacity(sizes): a capacity whose byte size exceeds isize::MAX
\* panics (capacity overflow; an element is more than 16 bytes, so 2^59
\* elements is past the limit in every layout), a small request is served,
\* and one in between may be served or may abort the process for want of
\* memory.
WithCapacity(sizes) ==
    IF IsSmall(sizes) THEN {"ok"}
    ELSE IF sizes[4] >= 2048 THEN {"panic"}
    ELSE {"ok", "panic"}

\* The first two statements of parse_arrays: the count line and its parse.
ParseArraysHeader(input) ==
    LET r == parse_everything_until_crlf(input)
    IN  IF r.tag = "Err"
        THEN [tag |-> "Err", err |-> r.err, examined |-> r.examined]
        ELSE LET p == ParseSize(r.line)
             IN  IF ~p.ok
                 THEN [tag |-> "Err", err |-> p.err, examined |-> r.examined]
                 ELSE [tag |-> "Ok", sizes |-> AsUsize(p.val), left |-> r.left,
                       examined |-> r.examined]

\* One activation of parse_arrays inside its loop: the declared count, the
\* elements pushed so far, the cursor, and (for the record) the input each
\* child invocation of parse_resp was given.
Frame(sizes, left) == [sizes |-> sizes, result |-> <<>>, left |-> left, args |-> <<>>]

\* ------------------------------------------------------------------ state

VARIABLES
    origin,     \* how the caller's buffer was made (never read by the decoder)
    buf,        \* the streaming caller's buffer: the last remainder
    decoded,    \* what the caller's calls have returned so far
    pc,         \* "caller" | "parse_resp" | "loop" | "return" | "stopped" | "panic"
    top,        \* the input of the current top-level parse_resp call
    arg,        \* the input of the parse_resp invocation being run
    stack,      \* the parse_arrays activations, outermost first
    ret,        \* the Result being returned
    ncalls,     \* parse_resp invocations of the current top-level call
    examined,   \* leading bytes of arg the last invocation examined
    done        \* the parse_arrays activation that returned Ok last

vars == <<origin, buf, decoded, pc, top, arg, stack, ret, ncalls, examined, done>>

NoRet == [tag |-> "None"]

NoFrame == [sizes |-> U64Zero, result |-> <<>>, left |-> <<>>, args |-> <<>>]

Top(st) == st[Len(st)]

Pop(st) == SubSeq(st, 1, Len(st) - 1)

\* The streaming caller hands its buffer to parse_resp.
Call ==
    /\ pc = "caller"
    /\ pc' = "parse_resp"
    /\ top' = buf
    /\ arg' = buf
    /\ stack' = <<>>
    /\ ret' = NoRet
    /\ ncalls' = 0
    /\ examined' = 0
    /\ done' = NoFrame
    /\ UNCHANGED <<origin, buf, decoded>>

\* parse_resp on anything but an array: the whole invocation.
ParseResp ==
    /\ pc = "parse_resp"
    /\ ~IsArraySigil(arg)
    /\ \E overflow_checks \in BOOLEAN :
          LET r == ParseRespLeaf(arg, overflow_checks)
          IN  /\ ret' = r.res
              /\ examined' = r.examined
              /\ pc' = IF r.res.tag = "Panic" THEN "panic" ELSE "return"
    /\ ncalls' = ncalls + 1
    /\ UNCHANGED <<origin, buf, decoded, top, arg, stack, done>>

\* parse_resp on '*': parse_arrays up to the head of its loop.
ParseArrays ==
    /\ pc = "parse_resp"
    /\ IsArraySigil(arg)
    /\ ncalls' = ncalls + 1
    /\ LET h == ParseArraysHeader(Drop(arg, 1))
       IN  /\ examined' = h.examined + 1
           /\ IF h.tag = "Err"
              THEN /\ ret' = Err(h.err)
                   /\ pc' = "return"
                   /\ stack' = stack
              ELSE \E alloc \in WithCapacity(h.sizes) :
                      IF alloc = "panic"
                      THEN /\ ret' = Panic("with_capacity")
                           /\ pc' = "panic"
                           /\ stack' = stack
                      ELSE /\ ret' = NoRet
                           /\ pc' = "loop"
                           /\ stack' = Append(stack, Frame(h.sizes, h.left))
    /\ UNCHANGED <<origin, buf, decoded, top, arg, done>>

\* for _ in 0..sizes: one more element is due, parse_resp(left) is invoked.
LoopNext ==
    /\ pc = "loop"
    /\ ~LenGe(Len(Top(stack).result), Top(stack).sizes)
    /\ arg' = Top(stack).left
    /\ stack' = [stack EXCEPT ![Len(stack)].args = Append(@, Top(stack).left)]
    /\ pc' = "parse_resp"
    /\ UNCHANGED <<origin, buf, decoded, top, ret, ncalls, examined, done>>

\* The loop is over: Ok((RESP::Array(result), left)).
LoopDone ==
    /\ pc = "loop"
    /\ LenGe(Len(Top(stack).result), Top(stack).sizes)
    /\ ret' = Ok(Array(Top(stack).result), Top(stack).left)
    /\ done' = Top(stack)
    /\ stack' = Pop(stack)
    /\ pc' = "return"
    /\ UNCHANGED <<origin, buf, decoded, top, arg, ncalls, examined>>

\* ElementOk without `left = tmp`: the cursor stays where it was.
ElementOk_stale_left ==
    /\ pc = "return"
    /\ stack # <<>>
    /\ ret.tag = "Ok"
    /\ stack' = [stack EXCEPT ![Len(stack)].result = Append(@, ret.resp)]
    /\ ret' = NoRet
    /\ pc' = "loop"
    /\ UNCHANGED <<origin, buf, decoded, top, arg, ncalls, examined, done>>

\* An element came back Ok: result.push(element); left = tmp.
ElementOk ==
    /\ pc = "return"
    /\ stack # <<>>
    /\ ret.tag = "Ok"
    /\ stack' = [stack EXCEPT ![Len(stack)].result = Append(@, ret.resp),
                              ![Len(stack)].left = ret.left]
    /\ ret' = NoRet
    /\ pc' = "loop"
    /\ UNCHANGED <<origin, buf, decoded, top, arg, ncalls, examined, done>>

\* ElementErr without the `?`: the failed element is kept as Nil and the
\* loop goes on.
ElementErr_continue ==
    /\ pc = "return"
    /\ stack # <<>>
    /\ ret.tag = "Err"
    /\ stack' = [stack EXCEPT ![Len(stack)].result = Append(@, Nil)]
    /\ ret' = NoRet
    /\ pc' = "loop"
    /\ UNCHANGED <<origin, buf, decoded, top, arg, ncalls, examined, done>>

\* An element came back Err: `?` returns it from parse_arrays, and from the
\* parse_resp that called it, dropping the elements collected so far.
ElementErr ==
    /\ pc = "return"
    /\ stack # <<>>
    /\ ret.tag = "Err"
    /\ stack' = Pop(stack)
    /\ UNCHANGED <<origin, buf, decoded, pc, top, arg, ret, ncalls, examined, done>>

\* The top-level call returns: the caller keeps the Result and, on Ok,
\* goes on with the remainder; it stops at the first Err.
Return ==
    /\ pc = "return"
    /\ stack = <<>>
    /\ decoded' = Append(decoded, ret)
    /\ buf' = IF ret.tag = "Ok" THEN ret.left ELSE buf
    /\ pc' = IF ret.tag = "Ok" THEN "caller" ELSE "stopped"
    /\ UNCHANGED <<origin, top, arg, stack, ret, ncalls, examined, done>>

Next ==
    \/ Call
    \/ ParseResp
    \/ ParseArrays
    \/ LoopNext
    \/ LoopDone
    \/ ElementOk
    \/ ElementErr
    \/ Return

Start(o, b) ==
    /\ origin = o
    /\ buf = b
    /\ decoded = <<>>
    /\ pc = "caller"
    /\ top = <<>>
    /\ arg = <<>>
    /\ stack = <<>>
    /\ ret = NoRet
    /\ ncalls = 0
    /\ examined = 0
    /\ done = NoFrame

\* ------------------------------------------------------- the wire encoding

\* benches/decode.rs: the frame terminator and the nil frame.
CRLF == <<CR, LF>>

NULL == <<DOLLAR, MINUS, ONE>> \o CRLF

\* len.to_string(): the decimal digits of n, most significant first.
RECURSIVE to_string(_)
to_string(n) ==
    IF n < 10 THEN <<ZERO + n>> ELSE Append(to_string(n \div 10), ZERO + (n % 10))

\* bulkstring_bytes, for a given payload instead of a random one.
bulkstring_bytes(payload) ==
    <<DOLLAR>> \o to_string(Len(payload)) \o CRLF \o payload \o CRLF

\* The encoding table of the wire format: the frame of a value.
RECURSIVE Encode(_)
RECURSIVE EncodeAll(_)
EncodeAll(vs) ==
    IF vs = <<>> THEN <<>> ELSE Encode(vs[1]) \o EncodeAll(Drop(vs, 1))

Encode(v) ==
    CASE v.variant = "String" -> <<PLUS>> \o v.bytes \o CRLF
      [] v.variant = "Error" -> <<MINUS>> \o v.bytes \o CRLF
      [] v.variant = "Integer" -> <<COLON>> \o v.bytes \o CRLF
      [] v.variant = "BulkString" -> bulkstring_bytes(v.bytes)
      [] v.variant = "Nil" -> NULL
      [] v.variant = "Array" ->
            <<STAR>> \o to_string(Len(v.elems)) \o CRLF \o EncodeAll(v.elems)

\* ------------------------------------------------------------- the inputs

\* Bounds of the inputs the caller's buffer is drawn from.
MaxFrameLen == 12
MaxRaw == 5

\* Line texts are made of these bytes (no text holds an adjacent CR LF, which
\* would end the line early), bulk payloads of those.
TextBytes == {ONE, CR}

PayloadBytes == {CR, LF}

LeavesOfSize(n) ==
    (IF n >= 3
     THEN UNION {{String(t), Error(t), Integer(t)} : t \in [1 .. n - 3 -> TextBytes]}
     ELSE {})
    \cup (IF n = 5 THEN {Nil} ELSE {})
    \cup (IF n >= 6 /\ n <= 15
          THEN {BulkString(b) : b \in [1 .. n - 6 -> PayloadBytes]}
          ELSE {})

\* acc[j + 1] holds, for each size j < n, the values whose frame is j bytes
\* long (w) and the sequences of values whose frames add up to j bytes (s).
RECURSIVE BySize(_, _)
BySize(n, acc) ==
    IF n > MaxFrameLen THEN acc
    ELSE LET arrays == IF n >= 4
                       THEN {Array(x) : x \in {y \in acc[n - 3].s : Len(y) <= 9}}
                       ELSE {}
             w == LeavesOfSize(n) \cup arrays
             s == IF n = 0 THEN {<<>>}
                  ELSE UNION {{<<v>> \o t : v \in (IF j = n THEN w ELSE acc[j + 1].w),
                                            t \in acc[n - j + 1].s} : j \in 1 .. n}
         IN  BySize(n + 1, Append(acc, [w |-> w, s |-> s]))

Universe == BySize(0, <<>>)

\* Every well-formed frame of at most MaxFrameLen bytes, and every stream of
\* such frames of at most MaxFrameLen bytes in all.
Frames == UNION {Universe[n + 1].w : n \in 0 .. MaxFrameLen}

Streams == UNION {Universe[n + 1].s : n \in 0 .. MaxFrameLen}

\* Bytes that follow a stream in the buffer: nothing, an unknown sigil, the
\* start of a frame that has not arrived in full.
RPAREN == 41

Tails == {<<>>, <<RPAREN>>, <<PLUS, ONE>>}

CutTails == {<<>>, <<RPAREN>>, <<PLUS, CR, LF>>}

RawBytes == {PLUS, MINUS, COLON, DOLLAR, STAR, CR, LF, ONE}

RawBuffers == UNION {[1 .. n -> RawBytes] : n \in 0 .. MaxRaw}

Ascii(ds) == [i \in 1 .. Len(ds) |-> ZERO + ds[i]]

\* Length and count lines: digits, signs, junk, bytes that are no UTF-8, and
\* values at the edges of the 64-bit range.
SizeLines ==
    { <<>>, <<ZERO>>, <<ONE>>, <<ZERO, ONE>>, <<PLUS>>, <<MINUS>>,
      <<PLUS, ZERO>>, <<PLUS, ONE>>, <<MINUS, ZERO>>, <<MINUS, ONE>>,
      <<PLUS, PLUS, ONE>>, <<97>>, <<ONE, 97>>, <<97, ONE>>, <<32, ONE>>,
      <<ONE, 32>>, <<ONE, CR>>, <<LF, ONE>>, <<255>>, <<195, 169>>, <<ONE, 128>>,
      Ascii(<<6,5,5,3,6>>),
      Ascii(<<5,7,6,4,6,0,7,5,2,3,0,3,4,2,3,4,8,8>>),
      Ascii(<<9,2,2,3,3,7,2,0,3,6,8,5,4,7,7,5,8,0,8>>),
      Ascii(<<1,8,4,4,6,7,4,4,0,7,3,7,0,9,5,5,1,6,1,4>>),
      Ascii(<<1,8,4,4,6,7,4,4,0,7,3,7,0,9,5,5,1,6,1,5>>),
      <<PLUS>> \o Ascii(<<1,8,4,4,6,7,4,4,0,7,3,7,0,9,5,5,1,6,1,5>>),
      Ascii(<<1,8,4,4,6,7,4,4,0,7,3,7,0,9,5,5,1,6,1,6>>),
      Ascii(<<9,9,9,9,9,9,9,9,9,9,9,9,9,9,9,9,9,9,9,9>>) }

Rests == {<<>>, CRLF, <<ONE>> \o CRLF, <<PLUS>> \o CRLF, <<ONE, ONE, CR>>}

HeaderInputs ==
    {<<g>> \o l \o CRLF \o r : g \in {DOLLAR, STAR}, l \in SizeLines, r \in Rests}

\* The buffers of the unit tests of lib.rs.
Foo == <<102, 111, 111>>

Bar == <<98, 97, 114>>

Hello == <<104, 101, 108, 108, 111>>

TestValues ==
    { String(Hello), Nil, BulkString(Foo \o Bar), BulkString(<<>>),
      Array(<<BulkString(Foo), BulkString(Bar)>>),
      Array(<<Integer(Ascii(<<1>>)), Integer(Ascii(<<2>>)), Integer(Ascii(<<3>>)),
              Integer(Ascii(<<4>>)), BulkString(Foo \o Bar)>>),
      Array(<<Array(<<Integer(Ascii(<<1>>)), Integer(Ascii(<<2>>)),
                      Integer(Ascii(<<3>>))>>),
              Array(<<String(<<70, 111, 111>>), Error(<<66, 97, 114>>)>>)>>),
      BulkString(Foo \o CRLF \o Bar \o CRLF \o CRLF) }

TestErrors ==
    { <<PLUS>> \o Hello,
      <<STAR, ZERO + 2>> \o CRLF \o bulkstring_bytes(Foo) \o <<RPAREN>> \o Hello,
      <<>>,
      <<DOLLAR, ZERO + 4>> \o CRLF \o Foo \o CRLF,
      <<STAR, ZERO + 2>> \o CRLF \o <<DOLLAR, ZERO + 3>> \o CRLF \o Foo
          \o <<PLUS>> \o Hello \o CRLF }

RawInputs == RawBuffers \cup HeaderInputs \cup TestErrors

FromRaw == [kind |-> "raw", values |-> <<>>, cut |-> 0, tail |-> <<>>]

FromFrames(vs, t) ==
    [kind |-> "frames", values |-> vs, cut |-> Len(EncodeAll(vs)), tail |-> t]

FromCut(v, c, t) == [kind |-> "cut", values |-> <<v>>, cut |-> c, tail |-> t]

\* Arbitrary bytes: every short buffer, the crafted headers, the failing tests.
InitRaw == \E b \in RawInputs : Start(FromRaw, b)

\* A stream of well-formed frames followed by a tail.
InitFrames ==
    \E vs \in Streams \cup {<<v>> : v \in TestValues}, t \in Tails :
        Start(FromFrames(vs, t), EncodeAll(vs) \o t)

\* A frame cut short (a short read), followed by a tail.
InitCut ==
    \E v \in Frames \cup TestValues, t \in CutTails :
        \E c \in 1 .. Len(Encode(v)) - 1 :
            Start(FromCut(v, c, t), Take(Encode(v), c) \o t)

Init == InitRaw \/ InitFrames \/ InitCut

Spec == Init /\ [][Next]_vars

\* ------------------------------------------------------------- properties

\* The top-level call is handing `ret` back to the caller.
TopReturn == pc = "return" /\ stack = <<>>

\* The top-level call is over, by a return or by a panic.
TopEnded == TopReturn \/ pc = "panic"

\* The top-level call runs on a buffer that starts with the frame of the
\* next value of a well-formed stream.
OnFrame ==
    /\ origin.kind = "frames"
    /\ Len(decoded) < Len(origin.values)

CurValue == origin.values[Len(decoded) + 1]

CurRest == EncodeAll(Drop(origin.values, Len(decoded) + 1)) \o origin.tail

\* C1: "*<k>\r\n" followed by k well-formed elements decodes to the Array of
\* the k decoded elements in order, the remainder being what follows the
\* frame (nothing, when the frame is the whole buffer); parse_resp is
\* invoked exactly k times for the direct children, the first on the bytes
\* after the count line and each next one on the remainder of the one before.
C1_ArrayOfK ==
    (TopReturn /\ OnFrame /\ CurValue.variant = "Array"
               /\ top = Encode(CurValue) \o CurRest)
    => LET elems == CurValue.elems
           k == Len(elems)
       IN  /\ ret = Ok(Array(elems), CurRest)
           /\ Len(ret.resp.elems) = k
           /\ Len(done.args) = k
           /\ \A i \in 1 .. k :
                 done.args[i] = EncodeAll(SubSeq(elems, i, k)) \o CurRest

C1_Witness ==
    /\ TopReturn
    /\ origin.kind = "frames"
    /\ origin.tail = <<>>
    /\ ret.tag = "Ok"
    /\ ret.left = <<>>
    /\ ret.resp.variant = "Array"
    /\ Len(ret.resp.elems) = 2
    /\ ret.resp.elems[1].variant = "Array"
    /\ Len(ret.resp.elems[1].elems) = 3
    /\ ret.resp.elems[2] = Array(<<String(<<70, 111, 111>>), Error(<<66, 97, 114>>)>>)
    /\ Len(done.args) = 2

\* C2: "$<n>\r\n" ++ payload ++ "\r\n" decodes to BulkString(payload) of
\* exactly n bytes, whatever CR and LF bytes the payload holds, with the
\* remainder being what follows the frame (empty when nothing does).
C2_BulkByLength ==
    (TopReturn /\ OnFrame /\ CurValue.variant = "BulkString"
               /\ top = bulkstring_bytes(CurValue.bytes) \o CurRest)
    => /\ ret = Ok(BulkString(CurValue.bytes), CurRest)
       /\ Len(ret.resp.bytes) = Len(CurValue.bytes)

C2_Witness ==
    /\ TopReturn
    /\ top = <<DOLLAR, ONE, ZERO + 2>> \o CRLF \o Foo \o CRLF \o Bar \o CRLF
                 \o CRLF \o CRLF
    /\ ret = Ok(BulkString(Foo \o CRLF \o Bar \o CRLF \o CRLF), <<>>)

\* C3: a caller that feeds each remainder back in gets, from a buffer made
\* of well-formed frames F1..Fn followed by a tail S, the decodings of
\* F1..Fn in order, the i-th with remainder F(i+1)..Fn ++ S; and when S is
\* empty the call after the last frame fails with EmptyInput and ends it.
C3_Streaming ==
    origin.kind = "frames"
    => LET n == Len(origin.values)
           Rem(i) == EncodeAll(Drop(origin.values, i)) \o origin.tail
       IN  /\ \A i \in 1 .. Len(decoded) :
                 IF i <= n
                 THEN decoded[i] = Ok(origin.values[i], Rem(i))
                 ELSE origin.tail = <<>> => (i = n + 1 /\ decoded[i] = Err(EmptyInput))
           /\ (pc = "caller" /\ Len(decoded) <= n) => buf = Rem(Len(decoded))
           /\ (pc = "parse_resp" /\ stack = <<>> /\ Len(decoded) <= n)
                 => arg = Rem(Len(decoded))

C3_Witness ==
    /\ origin.kind = "frames"
    /\ origin.tail = <<>>
    /\ Len(origin.values) = 3
    /\ Len(decoded) = 4
    /\ decoded[1].tag = "Ok" /\ decoded[1].left # <<>>
    /\ decoded[3].tag = "Ok" /\ decoded[3].left = <<>>
    /\ decoded[4] = Err(EmptyInput)
    /\ pc = "stopped"

\* An adjacent CR LF pair sits at offset i of s (offsets count from 0).
CrlfAt(s, i) == i + 2 <= Len(s) /\ s[i + 1] = CR /\ s[i + 2] = LF

LineVariant(sigil, bytes) ==
    CASE sigil = PLUS -> String(bytes)
      [] sigil = MINUS -> Error(bytes)
      [] sigil = COLON -> Integer(bytes)

\* C4: after a '+', '-' or ':' sigil the line ends at the first adjacent
\* CR LF pair: the value holds the bytes before it verbatim and the
\* remainder starts after it; without such a pair the call fails with
\* NoCrlf; and no byte past the end of the buffer is examined.
C4_LineTypes ==
    (TopReturn /\ top # <<>> /\ top[1] \in {PLUS, MINUS, COLON})
    => LET rest == Drop(top, 1)
       IN  /\ \A i \in 0 .. Len(rest) :
                 (CrlfAt(rest, i) /\ \A j \in 0 .. i - 1 : ~CrlfAt(rest, j))
                 => ret = Ok(LineVariant(top[1], Take(rest, i)), Drop(rest, i + 2))
           /\ (\A i \in 0 .. Len(rest) : ~CrlfAt(rest, i)) => ret = Err(NoCrlf)
           /\ examined <= Len(top)

C4_Witness ==
    /\ TopReturn
    /\ top = <<COLON, LF, CR, CR, LF>>
    /\ ret = Ok(Integer(<<LF, CR>>), <<>>)
    /\ examined = Len(top)

\* C5: when "-1\r\n" follows the '$' sigil the value is Nil and the
\* remainder starts right after those four bytes, whatever follows; Nil is
\* returned for no other input; and "$0\r\n\r\n" is the empty BulkString,
\* which is not Nil.
C5_Nil ==
    TopReturn
    => /\ (Len(top) >= 5 /\ Take(top, 5) = NULL) => ret = Ok(Nil, Drop(top, 5))
       /\ (ret.tag = "Ok" /\ ret.resp = Nil) => (Len(top) >= 5 /\ Take(top, 5) = NULL)
       /\ top = <<DOLLAR, ZERO>> \o CRLF \o CRLF
             => (ret = Ok(BulkString(<<>>), <<>>) /\ ret.resp # Nil)

C5_Witness ==
    /\ TopReturn
    /\ top = NULL \o <<RPAREN>>
    /\ ret = Ok(Nil, <<RPAREN>>)

Sigils == {PLUS, MINUS, COLON, DOLLAR, STAR}

\* C6: an empty buffer fails with EmptyInput; a buffer whose first byte is
\* no sigil fails with UnknownSymbol, and the error carries that byte; no
\* later byte is examined in either case.
C6_DispatcherErrors ==
    TopReturn
    => /\ top = <<>> => (ret = Err(EmptyInput) /\ examined = 0)
       /\ (top # <<>> /\ top[1] \notin Sigils)
             => /\ ret.tag = "Err"
                /\ ret.err.kind = "UnknownSymbol"
                /\ examined <= 1
                /\ "byte" \in DOMAIN ret.err
                /\ ret.err.byte = top[1]

\* The line after a '$' or '*' sigil, when the buffer has one and it is not
\* the nil marker of a bulk string.
HasSizeLine(input) ==
    /\ Len(input) >= 1
    /\ input[1] \in {DOLLAR, STAR}
    /\ ~(input[1] = DOLLAR /\ Len(input) >= 5 /\ Take(input, 5) = NULL)
    /\ \E i \in 0 .. Len(input) : CrlfAt(Drop(input, 1), i)

SizeLineEnd(input) ==
    CHOOSE i \in 0 .. Len(input) :
        /\ CrlfAt(Drop(input, 1), i)
        /\ \A j \in 0 .. i - 1 : ~CrlfAt(Drop(input, 1), j)

SizeLine(input) == Take(Drop(input, 1), SizeLineEnd(input))

AfterSizeLine(input) == Drop(input, 1 + SizeLineEnd(input) + 2)

\* C7: a bulk string whose length line parses to L and which is followed by
\* fewer than L + 2 bytes, or whose bytes at offsets L and L + 1 are not
\* CR LF, fails with IncorrectFormat.
C7_BulkIncorrectFormat ==
    (TopEnded /\ HasSizeLine(top) /\ top[1] = DOLLAR /\ ParseSize(SizeLine(top)).ok)
    => LET L == ParseSize(SizeLine(top)).val
           after == AfterSizeLine(top)
           fits == IsSmall(L) /\ Len(after) >= SmallVal(L) + 2
       IN  (~fits \/ ~CrlfAt(after, SmallVal(L))) => ret = Err(IncorrectFormat)

\* C8: a length or count line that is empty or holds a byte that is no
\* ASCII digit makes the call fail with the numeric-format kind (Other,
\* boxing the conversion failure); it neither succeeds nor panics.
C8_NumericFormat ==
    (TopEnded /\ HasSizeLine(top)
              /\ (SizeLine(top) = <<>>
                  \/ \E i \in 1 .. Len(SizeLine(top)) : ~IsDigit(SizeLine(top)[i])))
    => /\ ret.tag = "Err"
       /\ ret.err.kind = "Other"

\* C9: an element's Err leaves every enclosing parse_arrays at once and
\* unchanged: the activation is dropped with the elements it had collected,
\* no further element is decoded, and the same Err goes to the caller.
C9_ErrorPropagates ==
    [][(pc = "return" /\ ret.tag = "Err")
       => /\ ret' = ret
          /\ ncalls' = ncalls
          /\ IF stack # <<>>
             THEN pc' = "return" /\ stack' = Pop(stack) /\ decoded' = decoded
             ELSE pc' = "stopped" /\ decoded' = Append(decoded, ret)]_vars

C9_Witness ==
    /\ pc = "return"
    /\ ret = Err(UnknownSymbol)
    /\ Len(stack) = 2
    /\ Len(stack[1].result) = 1
    /\ Len(Top(stack).result) = 1
    /\ Top(stack).sizes = <<2, 0, 0, 0>>

\* The buffer is a non-empty proper prefix of a well-formed frame.
OnShortRead == origin.kind = "cut" /\ origin.tail = <<>> /\ decoded = <<>>

\* C10 as stated: a short read fails with NoCrlf or IncorrectFormat and
\* with no other kind.
C10_ShortReadKinds ==
    (TopEnded /\ OnShortRead)
    => /\ ret.tag = "Err"
       /\ ret.err.kind \in {"NoCrlf", "IncorrectFormat"}

\* C10, amended: a short read never succeeds and fails with NoCrlf or
\* IncorrectFormat, or with EmptyInput when an array is cut exactly where
\* its next element would start; with no other kind.
C10_ShortReadKindsAmended ==
    (TopEnded /\ OnShortRead)
    => /\ ret.tag = "Err"
       /\ \/ ret.err.kind \in {"NoCrlf", "IncorrectFormat"}
          \/ /\ ret.err.kind = "EmptyInput"
             /\ top[1] = STAR
             /\ arg = <<>>
             /\ ncalls >= 2

C10_Witness ==
    /\ TopReturn
    /\ OnShortRead
    /\ top = <<STAR, ZERO + 2>> \o CRLF \o <<COLON, ONE>> \o CRLF
    /\ ret = Err(EmptyInput)

\* C11: for every declared length L the length parse accepts, L + 2 does not
\* overflow the machine word, the bounds check passes only if L + 2 is at
\* most the number of bytes after the length line, and no index or slice
\* bound leaves the buffer (the call does not panic).
C11_BoundsCheckExact ==
    (TopEnded /\ HasSizeLine(top) /\ top[1] = DOLLAR /\ ParseSize(SizeLine(top)).ok)
    => LET L == AsUsize(ParseSize(SizeLine(top)).val)
           after == AfterSizeLine(top)
       IN  /\ ~AddSmall(L, 2).overflow
           /\ ret.tag # "Panic"
           /\ ret.tag = "Ok" => (IsSmall(L) /\ SmallVal(L) + 2 <= Len(after))

\* An array header whose declared count is more than the elements the rest
\* of the buffer can hold: an element takes three bytes at least.
CountBeyondElements(input) ==
    /\ HasSizeLine(input)
    /\ input[1] = STAR
    /\ ParseSize(SizeLine(input)).ok
    /\ ~LenGe(Len(AfterSizeLine(input)) \div 3, AsUsize(ParseSize(SizeLine(input)).val))

\* C12: an array whose declared count exceeds the elements present in the
\* buffer makes the call return an error value; the process never aborts,
\* whatever the count.
C12_CountNeverAborts ==
    (TopEnded /\ CountBeyondElements(top)) => ret.tag = "Err"

\* The input of the parse_resp invocation that is returning: the caller's
\* buffer at the top level, and below it the cursor the enclosing
\* parse_arrays passed last.
CallInput ==
    IF stack = <<>> THEN top ELSE Top(stack).args[Len(Top(stack).args)]

\* C13: every parse_resp invocation that returns Ok, at any depth, returns a
\* suffix of its own input that is at least 3 bytes shorter, the consumed
\* prefix followed by it being the input; so each Ok of the streaming caller
\* leaves a buffer at least 3 bytes shorter than the one it passed.
C13_Progress ==
    /\ (pc = "return" /\ ret.tag = "Ok")
       => LET k == Len(CallInput) - Len(ret.left)
          IN  /\ k >= 3
              /\ ret.left = Drop(CallInput, k)
              /\ Take(CallInput, k) \o ret.left = CallInput
    /\ (pc = "caller" /\ decoded # <<>>) => Len(buf) + 3 <= Len(top)

\* An element inside an array returns Ok having consumed exactly 3 bytes,
\* with bytes left over.
C13_Witness ==
    /\ pc = "return"
    /\ stack # <<>>
    /\ ret.tag = "Ok"
    /\ Len(CallInput) - Len(ret.left) = 3
    /\ ret.left # <<>>

\* A variant of the decoder's run: twice the bytes still ahead of the
\* cursor, three per open parse_arrays activation, and the place in the
\* cycle call -> loop -> return; an Err on its way out counts the
\* activations it still has to leave. The declared counts play no part.
Measure ==
    CASE pc = "caller" -> 2 * Len(buf) + 3
      [] pc = "parse_resp" -> 2 * Len(arg) + 3 * Len(stack) + 2
      [] pc = "loop" -> 2 * Len(Top(stack).left) + 3 * Len(stack) + 3
      [] pc = "return" /\ ret.tag = "Ok" -> 2 * Len(ret.left) + 3 * Len(stack) + 4
      [] pc = "return" /\ ret.tag # "Ok" -> Len(stack) + 1
      [] OTHER -> 0

\* C14: every step of a call lowers a natural-valued variant that does not
\* depend on the declared counts, so every call on a finite buffer
\* terminates; and the parse_resp invocations of one top-level call on n
\* bytes, recursive ones included, number at most n \div 3 + 1.
C14_Termination ==
    [][/\ Measure' < Measure
       /\ Measure' >= 0
       /\ ncalls' <= Len(top') \div 3 + 1]_vars

\* A declared count of 2^16 or more over a buffer holding one element: the
\* loop stops with EmptyInput at the second element, after three invocations.
C14_Witness ==
    /\ TopReturn
    /\ CountBeyondElements(top)
    /\ ~IsSmall(ParseSize(SizeLine(top)).val)
    /\ ret = Err(EmptyInput)
    /\ ncalls = 3
    /\ ncalls <= Len(top) \div 3 + 1
====
